---- MODULE Spec2Model ----
(***************************************************************************)
(* videojs-contrib-eme: the DRM session orchestrator of src/fairplay.js.   *)
(*                                                                         *)
(* One player with one <video> element (the playback surface).  The state  *)
(* is the player's plugin state (activeSrc, the sessions arrays), the      *)
(* fields the code keeps on the video element (mediaKeysObject,            *)
(* pendingSessionData, keySystem, msKeys), the platform key sessions, and  *)
(* the position of every asynchronous continuation in flight.              *)
(***************************************************************************)
EXTENDS Integers, Sequences, FiniteSets, TLC

\* ------------------------------------------------------------------ bounds
MaxSignals == 2       \* need-key signals handled in one behaviour
MaxQueueSignals == 3  \* the same, where the source does not change
MaxSrcChanges == 1    \* player.src() changes in one behaviour
MaxFollowed == 1      \* key sessions whose platform events are followed
MaxInitDataLen == 2    \* bytes of initData given to concatInitDataIdAndCertificate
MaxIdLen == 2          \* code units of the content id
MaxCertLen == 1        \* bytes of the certificate
MaxRequests == 2       \* 'message' events of one session
MaxSessionSignals == 2 \* need-key signals where sessions are followed to removal
MaxLicenseSignals == 1 \* need-key signals where every adapter's license
                       \* exchange is followed

\* ------------------------------------------------------- key system names
FAIRPLAY_KEY_SYSTEM == "com.apple.fps.1_0"
PLAYREADY_KEY_SYSTEM == "com.microsoft.playready"
WIDEVINE == "com.widevine.alpha"

\* ---------------------------------------------------- initialization data
\* A JavaScript value used as initData: null, an ArrayBuffer, or a Uint8Array
\* view of one.  id is the identity of the value (===), buf the identity of
\* the ArrayBuffer that holds its bytes, bytes the bytes of that buffer.
Null == [kind |-> "null", id |-> 0, buf |-> 0, bytes |-> <<>>]

\* The ArrayBuffer of an event: every event carries a buffer of its own.
EventBuffer(id, bytes) ==
    [kind |-> "ArrayBuffer", id |-> id, buf |-> id, bytes |-> bytes]

\* The byte contents an event's initData may have: two of the same length
\* that differ in one byte, and a third where three signals are handled.
EventBytes == { <<1, 2>>, <<1, 3>> }
QueueBytes == EventBytes \cup { <<2, 3>> }

\* The pssh of a key system configuration: a Uint8Array over its own buffer,
\* with the bytes of the first event content.
Pssh == [kind |-> "Uint8Array", id |-> 0 - 1, buf |-> 0 - 2, bytes |-> <<1, 2>>]

\* arrayBuffersEqual with a fault: identity only.
arrayBuffersEqualIdentity(arrayBuffer1, arrayBuffer2) ==
    arrayBuffer1.id = arrayBuffer2.id

\* arrayBuffersEqual with a fault: the byte loop is left out.
arrayBuffersEqualLength(arrayBuffer1, arrayBuffer2) ==
    \/ arrayBuffer1.id = arrayBuffer2.id
    \/ Len(arrayBuffer1.bytes) = Len(arrayBuffer2.bytes)

arrayBuffersEqual(arrayBuffer1, arrayBuffer2) ==
    \/ arrayBuffer1.id = arrayBuffer2.id
    \/ /\ Len(arrayBuffer1.bytes) = Len(arrayBuffer2.bytes)
       /\ \A i \in 1..Len(arrayBuffer1.bytes) :
             arrayBuffer1.bytes[i] = arrayBuffer2.bytes[i]

arrayBufferFrom(bufferOrTypedArray) ==
    IF bufferOrTypedArray.kind \in {"Uint8Array", "Uint16Array"}
    THEN [kind |-> "ArrayBuffer", id |-> bufferOrTypedArray.buf,
          buf |-> bufferOrTypedArray.buf, bytes |-> bufferOrTypedArray.bytes]
    ELSE bufferOrTypedArray

\* hasSession with a non-null initData.
hasSession(sessions, initData) ==
    \E i \in 1..Len(sessions) :
        /\ sessions[i].initData # Null
        /\ arrayBuffersEqual(arrayBufferFrom(sessions[i].initData),
                             arrayBufferFrom(initData))

\* hasSession(sessions, null) reads null.byteLength as soon as one entry
\* stores initData: the call throws a TypeError.
hasSessionThrows(sessions, initData) ==
    /\ initData = Null
    /\ \E i \in 1..Len(sessions) : sessions[i].initData # Null

RECURSIVE removeFirst(_, _, _)
removeFirst(sessions, initData, i) ==
    IF i > Len(sessions) THEN sessions
    ELSE IF sessions[i].initData.id = initData.id
         THEN SubSeq(sessions, 1, i - 1) \o SubSeq(sessions, i + 1, Len(sessions))
         ELSE removeFirst(sessions, initData, i + 1)

\* removeSession with a fault: removes nothing.
removeSessionNoop(sessions, initData) == sessions

removeSession(sessions, initData) == removeFirst(sessions, initData, 1)

\* ---------------------------------------------------------- configuration
\* options.keySystems: key system options in the key order of the object.
\* url / getLicense / getCertificate: whether the option is given; pssh: the
\* configured pssh value or Null.
KS(name, url, getLicense, getCertificate, pssh) ==
    [name |-> name, url |-> url, getLicense |-> getLicense,
     getCertificate |-> getCertificate, pssh |-> pssh]

\* The configurations and platforms explored: keySystems, the key systems
\* navigator.requestMediaKeySystemAccess accepts, and getKey: whether the
\* PlayReady options carry a getKey function.
Scenarios ==
    { [keySystems |-> << KS(WIDEVINE, TRUE, FALSE, FALSE, Null) >>,
       supported |-> {WIDEVINE}, getKey |-> FALSE],
      [keySystems |-> << KS(WIDEVINE, FALSE, TRUE, TRUE, Null),
                         KS(PLAYREADY_KEY_SYSTEM, TRUE, FALSE, FALSE, Null) >>,
       supported |-> {WIDEVINE, PLAYREADY_KEY_SYSTEM}, getKey |-> FALSE],
      [keySystems |-> << KS(FAIRPLAY_KEY_SYSTEM, TRUE, FALSE, TRUE, Null),
                         KS(PLAYREADY_KEY_SYSTEM, TRUE, FALSE, FALSE, Null),
                         KS(WIDEVINE, TRUE, FALSE, FALSE, Pssh) >>,
       supported |-> {WIDEVINE}, getKey |-> FALSE],
      [keySystems |-> << KS(WIDEVINE, TRUE, FALSE, FALSE, Null),
                         KS(PLAYREADY_KEY_SYSTEM, FALSE, FALSE, TRUE, Null) >>,
       supported |-> {PLAYREADY_KEY_SYSTEM}, getKey |-> TRUE],
      [keySystems |-> << KS(FAIRPLAY_KEY_SYSTEM, TRUE, FALSE, TRUE, Null) >>,
       supported |-> {}, getKey |-> FALSE] }

Sources == {1, 2}

VARIABLES
    scenario,            \* the options and the platform (never changes)
    src,                 \* player.src()
    activeSrc,           \* player.eme.activeSrc
    srcChanges,          \* number of source changes so far
    regs,                \* every sessions array allocated; the last one is
                         \* player.eme.sessions
    mediaKeysObject,     \* video.mediaKeysObject: "undefined", "null", "created"
    pendingSessionData,  \* video.pendingSessionData
    keySystem,           \* video.keySystem ("" while unset)
    msKeys,              \* video.msKeys is set
    tasks,               \* one record per need-key signal handled
    chain,               \* the key-management creation chain of standard5July2016
    certificate,         \* the certificate variable of that chain is set
    mq,                  \* microtasks queued by Promise.resolve().then(addSession)
    keySessions,         \* platform key sessions, in creation order
    msKeysConstructed,   \* number of MSMediaKeys objects constructed
    webkitKeys,          \* video.webkitKeys is set
    webkitKeysConstructed, \* number of WebKitMediaKeys objects constructed
    concat               \* a call of concatInitDataIdAndCertificate: its
                         \* arguments and what it returned

vars == << scenario, src, activeSrc, srcChanges, regs, mediaKeysObject,
           pendingSessionData, keySystem, msKeys, tasks, chain, certificate,
           mq, keySessions, msKeysConstructed,
           webkitKeys, webkitKeysConstructed, concat >>

\* player.eme.sessions
sessions == regs[Len(regs)]

\* options.keySystems[keySystem], or the record named "" when absent
RECURSIVE lookup(_, _, _)
lookup(keySystems, name, i) ==
    IF i > Len(keySystems) THEN KS("", FALSE, FALSE, FALSE, Null)
    ELSE IF keySystems[i].name = name THEN keySystems[i]
         ELSE lookup(keySystems, name, i + 1)

keySystemOptionsOf(name) == lookup(scenario.keySystems, name, 1)

\* getSupportedKeySystem: requestMediaKeySystemAccess on the first key
\* system; each rejection is caught by a request for the next one.  The
\* promise settles with the first accepted key system, or rejects ("") with
\* the last rejection.
RECURSIVE firstAccepted(_, _, _)
firstAccepted(keySystems, supported, i) ==
    IF i > Len(keySystems) THEN ""
    ELSE IF keySystems[i].name \in supported THEN keySystems[i].name
         ELSE firstAccepted(keySystems, supported, i + 1)

\* getSupportedKeySystem with a fault: only the first key system is asked.
getSupportedKeySystemFirstOnly(keySystems) ==
    IF keySystems[1].name \in scenario.supported THEN keySystems[1].name ELSE ""

\* getSupportedKeySystem with a fault: the rejection of the last request is
\* caught and its key system returned.
getSupportedKeySystemLastResort(keySystems) ==
    IF firstAccepted(keySystems, scenario.supported, 1) = ""
    THEN keySystems[Len(keySystems)].name
    ELSE firstAccepted(keySystems, scenario.supported, 1)

getSupportedKeySystem(keySystems) ==
    firstAccepted(keySystems, scenario.supported, 1)

\* The key systems one getSupportedKeySystem call has passed to
\* requestMediaKeySystemAccess when its promise settles: the first, and after
\* every rejection the next.
RECURSIVE requestedFrom(_, _, _)
requestedFrom(keySystems, supported, i) ==
    IF i > Len(keySystems) THEN <<>>
    ELSE IF keySystems[i].name \in supported THEN << keySystems[i].name >>
         ELSE << keySystems[i].name >> \o requestedFrom(keySystems, supported, i + 1)

requestMediaKeySystemAccess(keySystems) ==
    requestedFrom(keySystems, scenario.supported, 1)

\* standardizeKeySystemOptions with a fault: options without url and
\* getLicense are let through.
standardizeKeySystemOptionsLenient(keySystemOptions) == FALSE

\* standardizeKeySystemOptions throws when neither url nor getLicense is given
standardizeKeySystemOptionsThrows(keySystemOptions) ==
    ~keySystemOptions.url /\ ~keySystemOptions.getLicense

\* standardizeKeySystemOptions with a fault: no default getLicense is made
\* from the url.
standardizeKeySystemOptionsNoDefault(name, keySystemOptions) ==
    IF keySystemOptions.getLicense THEN "getLicense" ELSE "undefined"

\* The getLicense of the options standardizeKeySystemOptions returns: the
\* one given, or a default made from the url.
standardizeKeySystemOptions(name, keySystemOptions) ==
    IF keySystemOptions.getLicense THEN "getLicense"
    ELSE IF name = PLAYREADY_KEY_SYSTEM THEN "defaultPlayreadyGetLicense"
    ELSE "defaultGetLicense"

\* ------------------------------------------------------------------- Init
\* The state after onPlayerReady: setupSessions has recorded the source and
\* allocated the first sessions array; the video element carries none of the
\* plugin's fields yet.
onPlayerReady ==
    /\ scenario \in Scenarios
    /\ src = 1
    /\ activeSrc = 1
    /\ srcChanges = 0
    /\ regs = << <<>> >>
    /\ mediaKeysObject = "undefined"
    /\ pendingSessionData = <<>>
    /\ keySystem = ""
    /\ msKeys = FALSE
    /\ tasks = <<>>
    /\ chain = [st |-> "idle", owner |-> 0, cause |-> "", calls |-> <<>>]
    /\ certificate = FALSE
    /\ mq = <<>>
    /\ keySessions = <<>>
    /\ msKeysConstructed = 0
    /\ webkitKeys = FALSE
    /\ webkitKeysConstructed = 0

\* A Uint8Array as the sequence of its bytes, a string as the sequence of its
\* UTF-16 code units.
Bytes == {1, 255}
CodeUnits == {65, 258}

SeqsUpTo(S, n) == UNION { [1..k -> S] : k \in 0..n }

\* stringToUint16Array: a Uint16Array with string.charCodeAt(i) at i.
stringToUint16Array(string) ==
    [i \in 1..Len(string) |-> string[i] % 65536]

\* dataView.setUint32(offset, n, true): the four bytes written, little-endian.
setUint32(n) ==
    << n % 256, (n \div 256) % 256, (n \div 65536) % 256, (n \div 16777216) % 256 >>

\* The bytes idArray.set(id) writes through a Uint16Array view: two per
\* element, low byte first (typed arrays use the platform's byte order, which
\* is little-endian wherever the plugin runs).
RECURSIVE Uint16ArraySet(_)
Uint16ArraySet(id) ==
    IF id = <<>> THEN <<>>
    ELSE << Head(id) % 256, Head(id) \div 256 >> \o Uint16ArraySet(Tail(id))

\* What a call returns: the bytes, or nothing when it threw.
Returned(bytes) == [threw |-> FALSE, bytes |-> bytes]
RangeError == [threw |-> TRUE, bytes |-> <<>>]

\* concatInitDataIdAndCertificate.  new Uint16Array(buffer, offset, length)
\* throws a RangeError when offset, here initData.byteLength + 4, is not a
\* multiple of 2.
concatInitDataIdAndCertificate(initData, id, cert) ==
    LET idArray == stringToUint16Array(id)
    IN IF (Len(initData) + 4) % 2 # 0 THEN RangeError
       ELSE Returned(initData \o setUint32(2 * Len(idArray))
                     \o Uint16ArraySet(idArray)
                     \o setUint32(Len(cert)) \o cert)

NoCall ==
    [pc |-> "idle", initData |-> <<>>, id |-> <<>>, cert |-> <<>>,
     out |-> Returned(<<>>)]

Init ==
    /\ onPlayerReady
    /\ concat = NoCall

\* A call of concatInitDataIdAndCertificate about to be made.
InitConcat ==
    /\ onPlayerReady
    /\ Len(scenario.keySystems) = 1
    /\ scenario.keySystems[1].name = FAIRPLAY_KEY_SYSTEM
    /\ concat \in { [NoCall EXCEPT !.pc = "call", !.initData = d, !.id = i, !.cert = c] :
                       d \in SeqsUpTo(Bytes, MaxInitDataLen),
                       i \in SeqsUpTo(CodeUnits, MaxIdLen),
                       c \in SeqsUpTo(Bytes, MaxCertLen) }

\* The call returns or throws.
Concat ==
    /\ concat.pc = "call"
    /\ concat' = [concat EXCEPT
                     !.pc = "done",
                     !.out = concatInitDataIdAndCertificate(concat.initData,
                                                            concat.id, concat.cert)]
    /\ UNCHANGED << scenario, src, activeSrc, srcChanges, regs, mediaKeysObject,
                    pendingSessionData, keySystem, msKeys, tasks, chain, certificate,
                    mq, keySessions, msKeysConstructed, webkitKeys,
                    webkitKeysConstructed >>

NextConcat == Concat

SpecConcat == InitConcat /\ [][NextConcat]_vars


\* --------------------------------------------------------- the player
\* player.src() as an event handler finds it: s, the source of the last
\* signal or another one (the player was given a new source since).  Nothing
\* but the handlers' setupSessions reads player.src().
PlayerSrc(s) ==
    /\ s = src \/ srcChanges < MaxSrcChanges
    /\ src' = s
    /\ srcChanges' = IF s = src THEN srcChanges ELSE srcChanges + 1

\* setupSessions with a fault: records the source, keeps the sessions array.
setupSessionsKeep(rs, s) == rs

\* setupSessions: the sessions arrays after the call (activeSrc becomes src).
setupSessions(rs, s) ==
    IF s # activeSrc THEN Append(rs, <<>>) ELSE rs

\* A record of tasks: one need-key signal and where its handling stands.
\*   initData  event.initData          used  the initData after pssh replacement
\*   reg       the sessions array the handler was given
\*   src       player.src() when the signal arrived
\*   epoch     the number of source changes before the signal
\*   enq       its position in the pending queue when addSession queued it
\*   neg, cert, create   getSupportedKeySystem / getCertificate /
\*                       createMediaKeys calls made on behalf of the signal
\*   session   platform sessions a legacy adapter created for the signal
\*   lic, note license requests made / 'licenserequestattempted' events
\*             triggered for that session
\*   ks, asked the key system the handler's getSupportedKeySystem resolved
\*             with ("" when it rejected) and the key systems it requested
NewTask(kind, initData, reg, s, pc, neg) ==
    [kind |-> kind, initData |-> initData, used |-> Null, reg |-> reg, src |-> s,
     epoch |-> srcChanges', enq |-> 0, pc |-> pc, neg |-> neg, cert |-> 0,
     create |-> 0, session |-> 0, lic |-> 0, note |-> 0, ks |-> "",
     asked |-> <<>>]

\* The 'encrypted' listener: setupSessions, then handleEncryptedEvent up to
\* its getSupportedKeySystem(...).then.  initializeMediaKeys on a video with
\* setMediaKeys does the same with an event whose initData is null.
Encrypted(d, s, max) ==
    /\ Len(tasks) < max
    /\ mq = <<>>
    /\ PlayerSrc(s)
    /\ activeSrc' = s
    /\ regs' = setupSessions(regs, s)
    /\ tasks' = Append(tasks,
                       NewTask("encrypted", d, Len(regs'), s, "negotiating", 1))
    /\ UNCHANGED << scenario, concat, mediaKeysObject, pendingSessionData, keySystem,
                    msKeys, chain, certificate, mq, keySessions, msKeysConstructed,
                    webkitKeys, webkitKeysConstructed >>

\* standard5July2016 with a fault: the guard tests !video.mediaKeysObject, so
\* a call after a failed creation enters the creation path again.
standard5July2016NoGuard(ts, t, initData) ==
    IF mediaKeysObject # "created" /\ chain.st \in {"idle", "failed"}
    THEN /\ mediaKeysObject' = "null"
         /\ pendingSessionData' = <<>>
         /\ chain' = [st |-> "negotiating", owner |-> t, cause |-> "", calls |-> <<>>]
         /\ tasks' = [ts EXCEPT ![t].pc = "waitKeys", ![t].used = initData,
                                   ![t].neg = @ + 1]
         /\ mq' = mq
    ELSE /\ mq' = Append(mq, t)
         /\ tasks' = [ts EXCEPT ![t].pc = "microtask", ![t].used = initData]
         /\ UNCHANGED << mediaKeysObject, pendingSessionData, chain >>

\* standard5July2016 up to its return: the first call marks the surface
\* (mediaKeysObject = null), resets the pending queue and starts the creation
\* chain, whose promise its addSession waits for; every other call chains
\* addSession on an already resolved promise (a microtask).  ts is the task
\* list with what the caller has recorded for signal t.
standard5July2016(ts, t, initData) ==
    IF mediaKeysObject = "undefined"
    THEN /\ mediaKeysObject' = "null"
         /\ pendingSessionData' = <<>>
         /\ chain' = [st |-> "negotiating", owner |-> t, cause |-> "", calls |-> <<>>]
         /\ tasks' = [ts EXCEPT ![t].pc = "waitKeys", ![t].used = initData,
                                   ![t].neg = @ + 1]
         /\ mq' = mq
    ELSE /\ mq' = Append(mq, t)
         /\ tasks' = [ts EXCEPT ![t].pc = "microtask", ![t].used = initData]
         /\ UNCHANGED << mediaKeysObject, pendingSessionData, chain >>

\* A sessions-array entry; task is the signal that pushed it.
Entry(initData, playready, t) ==
    [initData |-> initData, playready |-> playready, task |-> t]

\* The membership test with a fault: never a duplicate.
isDuplicateNever(ss, initData) == initData = Null

\* handleEncryptedEvent's test  hasSession(sessions, initData) || !initData
isDuplicate(ss, initData) == hasSession(ss, initData) \/ initData = Null

\* The continuation of handleEncryptedEvent's getSupportedKeySystem promise
\* for signal t: pssh replacement, membership test, push, standard5July2016.
\* When the promise rejects, or hasSession throws, the handler's promise
\* rejects and nothing else happens.
EncryptedCont(t) ==
    LET T == tasks[t]
        ks == getSupportedKeySystem(scenario.keySystems)
        initData == IF ks # "" /\ keySystemOptionsOf(ks).pssh # Null
                    THEN keySystemOptionsOf(ks).pssh ELSE T.initData
        asked == requestMediaKeySystemAccess(scenario.keySystems)
    IN /\ T.kind = "encrypted"
       /\ T.pc = "negotiating"
       /\ IF ks = "" \/ hasSessionThrows(regs[T.reg], initData)
          THEN /\ tasks' = [tasks EXCEPT ![t].pc = "rejected", ![t].ks = ks,
                                        ![t].asked = asked]
               /\ UNCHANGED << regs, mediaKeysObject, pendingSessionData, chain, mq >>
          ELSE IF isDuplicate(regs[T.reg], initData)
          THEN /\ tasks' = [tasks EXCEPT ![t].pc = "ignored", ![t].used = initData,
                                        ![t].ks = ks, ![t].asked = asked]
               /\ UNCHANGED << regs, mediaKeysObject, pendingSessionData, chain, mq >>
          ELSE /\ regs' = [regs EXCEPT ![T.reg] = Append(@, Entry(initData, FALSE, t))]
               /\ standard5July2016([tasks EXCEPT ![t].ks = ks, ![t].asked = asked],
                                    t, initData)
       /\ UNCHANGED << scenario, concat, src, activeSrc, srcChanges, keySystem, msKeys,
                       certificate, keySessions, msKeysConstructed,
                    webkitKeys, webkitKeysConstructed >>

\* --------------------------------------- the key-management creation chain
\* A platform key session made by makeNewRequest for signal t; rm is the
\* sessions array its removeSession is bound to.
\* drained: made by setMediaKeys' loop; epoch: the number of source changes
\* before it was made; lic, note: license requests made and
\* 'licenserequestattempted' events triggered for it; getLicense: the
\* function makeNewRequest was given (null when video.keySystem is unset);
\* keyStatuses: keySession.keyStatuses at its last 'keystatuseschange' event;
\* events: what the listener did for that event, in order.
KeySession(t, initData, rm, drained) ==
    [task |-> t, initData |-> initData, rm |-> rm, st |-> "open",
     drained |-> drained, epoch |-> srcChanges, lic |-> 0, note |-> 0,
     getLicense |-> IF keySystem = "" THEN "null"
                    ELSE standardizeKeySystemOptions(keySystem,
                                                     keySystemOptionsOf(keySystem)),
     keyStatuses |-> <<>>, events |-> <<>>]

\* makeNewRequest: mediaKeys.createSession(), the listeners, generateRequest.
makeNewRequest(ks, t, initData, rm, drained) ==
    Append(ks, KeySession(t, initData, rm, drained))

\* The chain rejected (cause: the step that failed): its catch logs the
\* error, the chain's promise resolves and the addSession of the signal that
\* started it is run.
ChainFails(cause) ==
    /\ chain' = [chain EXCEPT !.st = "failed", !.cause = cause]
    /\ mq' = Append(mq, chain.owner)
    /\ tasks' = [tasks EXCEPT ![chain.owner].pc = "microtask"]

\* The chain's first then with a fault: the key system is not saved on the
\* video.
ChainAccessUnrecorded ==
    LET ks == getSupportedKeySystem(scenario.keySystems)
        o == chain.owner
    IN /\ chain.st = "negotiating"
       /\ IF ks = ""
          THEN ChainFails("negotiation") /\ UNCHANGED keySystem
          ELSE /\ keySystem' = keySystem
               /\ IF standardizeKeySystemOptionsThrows(keySystemOptionsOf(ks))
                  THEN ChainFails("configuration")
                  ELSE IF keySystemOptionsOf(ks).getCertificate
                  THEN /\ chain' = [chain EXCEPT !.st = "cert"]
                       /\ tasks' = [tasks EXCEPT ![o].cert = @ + 1]
                       /\ mq' = mq
                  ELSE /\ chain' = [chain EXCEPT !.st = "creating"]
                       /\ tasks' = [tasks EXCEPT ![o].create = @ + 1]
                       /\ mq' = mq
       /\ UNCHANGED << scenario, concat, src, activeSrc, srcChanges, regs, mediaKeysObject,
                       pendingSessionData, msKeys, certificate, keySessions,
                       msKeysConstructed,
                    webkitKeys, webkitKeysConstructed >>

\* The chain's first then: getSupportedKeySystem resolved or rejected.  On
\* success the key system is saved on the video, its options are
\* standardized (which may throw), and getCertificate is called when given,
\* createMediaKeys otherwise.
ChainAccess ==
    LET ks == getSupportedKeySystem(scenario.keySystems)
        o == chain.owner
    IN /\ chain.st = "negotiating"
       /\ IF ks = ""
          THEN ChainFails("negotiation") /\ UNCHANGED keySystem
          ELSE /\ keySystem' = ks
               /\ IF standardizeKeySystemOptionsThrows(keySystemOptionsOf(ks))
                  THEN ChainFails("configuration")
                  ELSE IF keySystemOptionsOf(ks).getCertificate
                  THEN /\ chain' = [chain EXCEPT !.st = "cert"]
                       /\ tasks' = [tasks EXCEPT ![o].cert = @ + 1]
                       /\ mq' = mq
                  ELSE /\ chain' = [chain EXCEPT !.st = "creating"]
                       /\ tasks' = [tasks EXCEPT ![o].create = @ + 1]
                       /\ mq' = mq
       /\ UNCHANGED << scenario, concat, src, activeSrc, srcChanges, regs, mediaKeysObject,
                       pendingSessionData, msKeys, certificate, keySessions,
                       msKeysConstructed,
                    webkitKeys, webkitKeysConstructed >>

\* getCertificate's callback: an error rejects the chain; a certificate is
\* kept and keySystemAccess.createMediaKeys() is called.
CertCallback(err) ==
    /\ chain.st = "cert"
    /\ IF err
       THEN ChainFails("certificate") /\ UNCHANGED certificate
       ELSE /\ certificate' = TRUE
            /\ chain' = [chain EXCEPT !.st = "creating"]
            /\ tasks' = [tasks EXCEPT ![chain.owner].create = @ + 1]
            /\ mq' = mq
    /\ UNCHANGED << scenario, concat, src, activeSrc, srcChanges, regs, mediaKeysObject,
                    pendingSessionData, keySystem, msKeys, keySessions,
                    msKeysConstructed,
                    webkitKeys, webkitKeysConstructed >>

\* createMediaKeys() rejected.
CreateMediaKeysRejected ==
    /\ chain.st = "creating"
    /\ ChainFails("createMediaKeys")
    /\ UNCHANGED << scenario, concat, src, activeSrc, srcChanges, regs, mediaKeysObject,
                    pendingSessionData, keySystem, msKeys, certificate, keySessions,
                    msKeysConstructed,
                    webkitKeys, webkitKeysConstructed >>

\* The pending queue from position i on, each entry given to makeNewRequest.
RECURSIVE drain(_, _, _, _)
drain(ks, pending, i, rm) ==
    IF i > Len(pending) THEN ks
    ELSE drain(makeNewRequest(ks, pending[i].task, pending[i].initData, rm, TRUE),
               pending, i + 1, rm)

\* setMediaKeys' loop with a fault: the queue is read from its end.
RECURSIVE drainReversed(_, _, _, _)
drainReversed(ks, pending, i, rm) ==
    IF i > Len(pending) THEN ks
    ELSE drainReversed(
             makeNewRequest(ks, pending[Len(pending) + 1 - i].task,
                            pending[Len(pending) + 1 - i].initData, rm, TRUE),
             pending, i + 1, rm)

drainPendingReversed(ks, pending, rm) == drainReversed(ks, pending, 1, rm)

\* setMediaKeys' loop with a fault: the first entry is skipped.
drainSkipFirst(ks, pending, rm) == drain(ks, pending, 2, rm)

\* setMediaKeys' loop over video.pendingSessionData.
drainPending(ks, pending, rm) == drain(ks, pending, 1, rm)

\* setMediaKeys with a fault: the certificate is set after the loop.
setMediaKeysCertificateLast(cert, pending) ==
    [i \in 1..Len(pending) |-> "createSession"]
        \o (IF cert THEN << "setServerCertificate" >> ELSE <<>>)

\* The calls setMediaKeys makes on the created MediaKeys, in order:
\* setServerCertificate when there is a certificate, then the createSession
\* of a makeNewRequest for every queued entry.
setMediaKeys(cert, pending) ==
    (IF cert THEN << "setServerCertificate" >> ELSE <<>>)
        \o [i \in 1..Len(pending) |-> "createSession"]

\* createMediaKeys() resolved: setMediaKeys stores the object on the video,
\* sets the certificate, makes a request for every queued entry (with the
\* removeSession of the signal that started the chain), empties the queue
\* and calls video.setMediaKeys.
SetMediaKeys ==
    /\ chain.st = "creating"
    /\ mediaKeysObject' = "created"
    /\ keySessions' = drainPending(keySessions, pendingSessionData,
                                   tasks[chain.owner].reg)
    /\ tasks' = [i \in DOMAIN tasks |->
                    IF \E j \in 1..Len(pendingSessionData) :
                           pendingSessionData[j].task = i
                    THEN [tasks[i] EXCEPT !.pc = "requested"] ELSE tasks[i]]
    /\ pendingSessionData' = <<>>
    /\ chain' = [chain EXCEPT !.st = "assigning",
                               !.calls = setMediaKeys(certificate, pendingSessionData)]
    /\ UNCHANGED << scenario, concat, src, activeSrc, srcChanges, regs, keySystem, msKeys,
                    certificate, mq, msKeysConstructed,
                    webkitKeys, webkitKeysConstructed >>

\* video.setMediaKeys(createdMediaKeys) settled.  A rejection is logged by the
\* chain's catch; either way the chain's promise resolves and the addSession
\* of the signal that started it is run.
AssignSettled(ok) ==
    /\ chain.st = "assigning"
    /\ chain' = [chain EXCEPT !.st = "done",
                               !.cause = IF ok THEN "" ELSE "setMediaKeys"]
    /\ mq' = Append(mq, chain.owner)
    /\ tasks' = [tasks EXCEPT ![chain.owner].pc = "microtask"]
    /\ UNCHANGED << scenario, concat, src, activeSrc, srcChanges, regs, mediaKeysObject,
                    pendingSessionData, keySystem, msKeys, certificate, keySessions,
                    msKeysConstructed,
                    webkitKeys, webkitKeysConstructed >>

\* addSession with a fault: a request is made whether or not the keys exist.
addSessionAlways(t) ==
    /\ keySessions' = makeNewRequest(keySessions, t, tasks[t].used, tasks[t].reg,
                                     FALSE)
    /\ tasks' = [tasks EXCEPT ![t].pc = "requested"]
    /\ UNCHANGED pendingSessionData

\* addSession for signal t: a request when the video has its keys, an entry
\* of the pending queue otherwise.
addSession(t) ==
    IF mediaKeysObject = "created"
    THEN /\ keySessions' = makeNewRequest(keySessions, t, tasks[t].used,
                                          tasks[t].reg, FALSE)
         /\ tasks' = [tasks EXCEPT ![t].pc = "requested"]
         /\ UNCHANGED pendingSessionData
    ELSE /\ pendingSessionData' =
                Append(pendingSessionData, [initData |-> tasks[t].used, task |-> t])
         /\ tasks' = [tasks EXCEPT ![t].pc = "queued",
                                   ![t].enq = Len(pendingSessionData) + 1]
         /\ UNCHANGED keySessions

\* The then of standard5July2016's returned promise for signal t.  With
\* video.keySystem set, the callback standardizes that key system's options
\* to build getLicense before it calls addSession: when that throws, the
\* returned promise rejects and addSession is not called.
addSessionThen(t) ==
    IF keySystem # "" /\ standardizeKeySystemOptionsThrows(keySystemOptionsOf(keySystem))
    THEN /\ tasks' = [tasks EXCEPT ![t].pc = "threw"]
         /\ UNCHANGED << pendingSessionData, keySessions >>
    ELSE addSession(t)

\* The oldest microtask: the then of standard5July2016's returned promise.
RunMicrotask ==
    /\ mq # <<>>
    /\ addSessionThen(Head(mq))
    /\ mq' = Tail(mq)
    /\ UNCHANGED << scenario, concat, src, activeSrc, srcChanges, regs, mediaKeysObject,
                    keySystem, msKeys, chain, certificate, msKeysConstructed,
                    webkitKeys, webkitKeysConstructed >>

\* ------------------------------------------------- platform key sessions
\* The platform delivers events to a session: it is one of the sessions
\* followed, or fewer than MaxFollowed are.
Followed(s) ==
    Cardinality({ i \in DOMAIN keySessions : keySessions[i].st # "open" })
        < MaxFollowed

\* keySession.generateRequest(...) rejected: the error is logged.
GenerateRequestRejected(s) ==
    /\ keySessions[s].st = "open"
    /\ Followed(s)
    /\ keySessions' = [keySessions EXCEPT ![s].st = "requestFailed"]
    /\ UNCHANGED << scenario, concat, src, activeSrc, srcChanges, regs, mediaKeysObject,
                    pendingSessionData, keySystem, msKeys, tasks, chain, certificate,
                    mq, msKeysConstructed,
                    webkitKeys, webkitKeysConstructed >>

\* The session's 'message' event: getLicense is called with the message.
\* Without a function to call nothing is requested.  The platform sends the
\* message that generateRequest asked for and, until the session is closed,
\* renewal messages; the listener is the same for all and stays attached
\* whatever became of an earlier request.  max bounds the messages of one
\* session.
KeyMessage(s, max) ==
    /\ keySessions[s].st \in {"open", "updated", "licenseFailed"}
    /\ keySessions[s].lic < max
    /\ keySessions[s].getLicense \notin {"null", "undefined"}
    /\ keySessions[s].st = "open" => Followed(s)
    /\ mq = <<>>
    /\ keySessions' = [keySessions EXCEPT ![s].st = "licensing", ![s].lic = @ + 1]
    /\ UNCHANGED << scenario, concat, src, activeSrc, srcChanges, regs, mediaKeysObject,
                    pendingSessionData, keySystem, msKeys, tasks, chain, certificate,
                    mq, msKeysConstructed,
                    webkitKeys, webkitKeysConstructed >>

\* The message that generateRequest asked for, where the platform sends no
\* other.
Message(s) == KeyMessage(s, 1)

\* promisifyGetLicense's callback: 'licenserequestattempted' is triggered on
\* the event bus when there is one, then the promise rejects or resolves.
promisifyGetLicense(eventBus) == IF eventBus THEN 1 ELSE 0

\* getLicense settled: the callback above, then keySession.update(license),
\* or the error is logged.  The event bus is player.tech_.
LicenseSettled(s, err) ==
    /\ keySessions[s].st = "licensing"
    /\ keySessions' = [keySessions EXCEPT
                          ![s].st = IF err THEN "licenseFailed" ELSE "updated",
                          ![s].note = @ + promisifyGetLicense(TRUE)]
    /\ UNCHANGED << scenario, concat, src, activeSrc, srcChanges, regs, mediaKeysObject,
                    pendingSessionData, keySystem, msKeys, tasks, chain, certificate,
                    mq, msKeysConstructed,
                    webkitKeys, webkitKeysConstructed >>

\* keySession.keyStatuses as the list of its statuses, one per key.
KeyStatuses == {"usable", "expired", "internal-error"}
KeyStatusMaps ==
    { << a >> : a \in KeyStatuses } \cup
    { << a, b >> : a \in KeyStatuses, b \in KeyStatuses }

\* The 'keystatuseschange' loop with a fault: only the last key decides.
expiredLastOnly(keyStatuses) == keyStatuses[Len(keyStatuses)] = "expired"

\* The 'keystatuseschange' loop with a fault: 'internal-error' is taken for
\* 'expired' too.
expiredOrError(keyStatuses) ==
    \E i \in 1..Len(keyStatuses) : keyStatuses[i] \in {"expired", "internal-error"}

\* The 'keystatuseschange' loop's flag: some key reports 'expired'.
expired(keyStatuses) ==
    \E i \in 1..Len(keyStatuses) : keyStatuses[i] = "expired"

\* The 'keystatuseschange' loop with a fault: the loop is left at the first
\* expired key.
RECURSIVE forEachUntilExpired(_, _, _)
forEachUntilExpired(keyStatuses, s, i) ==
    IF i > Len(keyStatuses) THEN <<>>
    ELSE IF keyStatuses[i] = "expired"
         THEN << [type |-> "keystatuschange", keyId |-> i,
                  status |-> keyStatuses[i], target |-> s] >>
         ELSE << [type |-> "keystatuschange", keyId |-> i,
                  status |-> keyStatuses[i], target |-> s] >>
              \o forEachUntilExpired(keyStatuses, s, i + 1)

\* keySession.keyStatuses.forEach of the 'keystatuseschange' listener of
\* session s, from key i on: the events triggered on the event bus.
RECURSIVE forEach(_, _, _)
forEach(keyStatuses, s, i) ==
    IF i > Len(keyStatuses) THEN <<>>
    ELSE << [type |-> "keystatuschange", keyId |-> i,
             status |-> keyStatuses[i], target |-> s] >>
         \o forEach(keyStatuses, s, i + 1)

\* The call keySession.close() in the order of what the listener does.
Close(s) == [type |-> "close", keyId |-> 0, status |-> "", target |-> s]

\* The session's 'keystatuseschange' event: keySession.close() is called when
\* a key is expired; the session is left alone otherwise.
KeyStatusesChange(s, keyStatuses) ==
    /\ keySessions[s].st = "updated"
    /\ mq = <<>>
    /\ keySessions' = [keySessions EXCEPT
                          ![s].st = IF expired(keyStatuses) THEN "closing" ELSE @,
                          ![s].keyStatuses = keyStatuses,
                          ![s].events = forEach(keyStatuses, s, 1) \o
                                        (IF expired(keyStatuses) THEN << Close(s) >>
                                         ELSE <<>>)]
    /\ UNCHANGED << scenario, concat, src, activeSrc, srcChanges, regs, mediaKeysObject,
                    pendingSessionData, keySystem, msKeys, tasks, chain, certificate,
                    mq, msKeysConstructed,
                    webkitKeys, webkitKeysConstructed >>

\* keySession.close() resolved: removeSession(initData) on the sessions array
\* the session's removeSession is bound to.
CloseResolved(s) ==
    /\ keySessions[s].st = "closing"
    /\ keySessions' = [keySessions EXCEPT ![s].st = "closed"]
    /\ regs' = [regs EXCEPT ![keySessions[s].rm] =
                               removeSession(@, keySessions[s].initData)]
    /\ UNCHANGED << scenario, concat, src, activeSrc, srcChanges, mediaKeysObject,
                    pendingSessionData, keySystem, msKeys, tasks, chain, certificate,
                    mq, msKeysConstructed,
                    webkitKeys, webkitKeysConstructed >>

\* ------------------------------------------------ Legacy variant B (IE11)
\* The reduce with a fault: acc && session.playready, which from the initial
\* false is false for every array.
hasPlayreadyAnd(ss) == FALSE /\ \A i \in 1..Len(ss) : ss[i].playready

\* some entry of the sessions array is a PlayReady one (the reduce)
hasPlayready(ss) == \E i \in 1..Len(ss) : ss[i].playready

\* The 'msneedkey' listener: setupSessions, then handleMsNeedKeyEvent and
\* msPrefixed.  msPrefixed deletes video.msKeys and constructs a new
\* MSMediaKeys; msSetMediaKeys may throw (ok = FALSE), which is logged.
MsNeedKey(d, ok, s, max) ==
    LET o == keySystemOptionsOf(PLAYREADY_KEY_SYSTEM)
        rs == setupSessions(regs, s)
        initData == IF o.pssh # Null THEN o.pssh ELSE d
        handled == o.name # "" /\ ~hasPlayready(rs[Len(rs)]) /\ initData # Null
    IN /\ Len(tasks) < max
       /\ mq = <<>>
       /\ PlayerSrc(s)
       /\ activeSrc' = s
       /\ IF handled
          THEN /\ regs' = [rs EXCEPT ![Len(rs)] = Append(@, Entry(initData, TRUE,
                                                                Len(tasks) + 1))]
               /\ msKeysConstructed' = msKeysConstructed + 1
               /\ msKeys' = ok
               /\ tasks' = Append(tasks,
                      [NewTask("msneedkey", d, Len(rs), s,
                               IF ok THEN "msSession" ELSE "msFailed", 0)
                       EXCEPT !.used = initData,
                              !.session = IF ok THEN 1 ELSE 0])
          ELSE /\ regs' = rs
               /\ ok
               /\ tasks' = Append(tasks,
                                  NewTask("msneedkey", d, Len(rs), s, "ignored", 0))
               /\ UNCHANGED << msKeys, msKeysConstructed,
                    webkitKeys, webkitKeysConstructed >>
       /\ UNCHANGED << scenario, concat, mediaKeysObject, pendingSessionData,
                       keySystem, chain, certificate, mq, keySessions,
                       webkitKeys, webkitKeysConstructed >>

\* ---------------------------------------------- Legacy variant A (Safari)
\* The 'webkitneedkey' listener with a fault: a signal is dropped when an
\* earlier 'webkitneedkey' signal of the same source carried the same bytes.
WebKitNeedKeyOnce(d, s, max) ==
    LET o == keySystemOptionsOf(FAIRPLAY_KEY_SYSTEM)
        repeated == \E u \in DOMAIN tasks :
                        /\ tasks[u].kind = "webkitneedkey"
                        /\ tasks[u].src = s
                        /\ tasks[u].initData.bytes = d.bytes
    IN /\ Len(tasks) < max
       /\ mq = <<>>
       /\ PlayerSrc(s)
       /\ activeSrc' = s
       /\ regs' = setupSessions(regs, s)
       /\ tasks' = Append(tasks,
              IF o.name = "" \/ d = Null \/ repeated
              THEN NewTask("webkitneedkey", d, Len(regs'), s, "ignored", 0)
              ELSE [NewTask("webkitneedkey", d, Len(regs'), s, "certificate", 0)
                    EXCEPT !.used = d, !.cert = 1])
       /\ UNCHANGED << scenario, concat, mediaKeysObject, pendingSessionData, keySystem,
                       msKeys, chain, certificate, mq, keySessions, msKeysConstructed,
                       webkitKeys, webkitKeysConstructed >>

\* The 'webkitneedkey' listener: setupSessions, then handleWebKitNeedKeyEvent
\* and fairplay up to its getCertificate call.
WebKitNeedKey(d, s, max) ==
    LET o == keySystemOptionsOf(FAIRPLAY_KEY_SYSTEM)
    IN /\ Len(tasks) < max
       /\ mq = <<>>
       /\ PlayerSrc(s)
       /\ activeSrc' = s
       /\ regs' = setupSessions(regs, s)
       /\ tasks' = Append(tasks,
              IF o.name = "" \/ d = Null
              THEN NewTask("webkitneedkey", d, Len(regs'), s, "ignored", 0)
              ELSE [NewTask("webkitneedkey", d, Len(regs'), s, "certificate", 0)
                    EXCEPT !.used = d, !.cert = 1])
       /\ UNCHANGED << scenario, concat, mediaKeysObject, pendingSessionData, keySystem,
                       msKeys, chain, certificate, mq, keySessions, msKeysConstructed,
                       webkitKeys, webkitKeysConstructed >>

\* fairplay's getCertificate callback with a fault: an error is recorded but
\* addKey is called all the same.
FairplayCertIgnoresError(t, err, keysSet) ==
    /\ tasks[t].kind = "webkitneedkey"
    /\ tasks[t].pc = "certificate"
    /\ keysSet
    /\ webkitKeysConstructed' = webkitKeysConstructed + (IF webkitKeys THEN 0 ELSE 1)
    /\ webkitKeys' = TRUE
    /\ tasks' = [tasks EXCEPT ![t].pc = IF err THEN "certFailed" ELSE "webkitSession",
                              ![t].create = IF webkitKeys THEN 0 ELSE 1,
                              ![t].session = 1]
    /\ UNCHANGED << scenario, concat, src, activeSrc, srcChanges, regs, mediaKeysObject,
                    pendingSessionData, keySystem, msKeys, chain, certificate, mq,
                    keySessions, msKeysConstructed >>

\* fairplay's getCertificate callback for signal t.  An error rejects (and is
\* logged, pc "certFailed").  Otherwise addKey: while video.webkitKeys is unset a
\* WebKitMediaKeys is constructed and given to webkitSetMediaKeys, after which
\* the platform has set video.webkitKeys (keysSet) or not; without it addKey
\* rejects, with it the session is created.
FairplayCert(t, err, keysSet) ==
    /\ tasks[t].kind = "webkitneedkey"
    /\ tasks[t].pc = "certificate"
    /\ IF err
       THEN /\ keysSet
            /\ tasks' = [tasks EXCEPT ![t].pc = "certFailed"]
            /\ UNCHANGED << webkitKeys, webkitKeysConstructed >>
       ELSE IF ~webkitKeys
       THEN /\ webkitKeysConstructed' = webkitKeysConstructed + 1
            /\ webkitKeys' = keysSet
            /\ tasks' = [tasks EXCEPT ![t].pc = IF keysSet THEN "webkitSession"
                                                ELSE "rejected",
                                      ![t].create = 1,
                                      ![t].session = IF keysSet THEN 1 ELSE 0]
       ELSE /\ keysSet
            /\ tasks' = [tasks EXCEPT ![t].pc = "webkitSession", ![t].session = 1]
            /\ UNCHANGED << webkitKeys, webkitKeysConstructed >>
    /\ UNCHANGED << scenario, concat, src, activeSrc, srcChanges, regs, mediaKeysObject,
                    pendingSessionData, keySystem, msKeys, chain, certificate, mq,
                    keySessions, msKeysConstructed >>

\* A step of the legacy adapters that changes nothing but tasks.
LegacyStep(t, kind, from, to, lic, note) ==
    /\ tasks[t].kind = kind
    /\ tasks[t].pc = from
    /\ mq = <<>>
    /\ tasks' = [tasks EXCEPT ![t].pc = to, ![t].lic = @ + lic, ![t].note = @ + note]
    /\ UNCHANGED << scenario, concat, src, activeSrc, srcChanges, regs, mediaKeysObject,
                    pendingSessionData, keySystem, msKeys, chain, certificate, mq,
                    keySessions, msKeysConstructed, webkitKeys,
                    webkitKeysConstructed >>

\* addKey's 'webkitkeymessage' listener: getLicense is called.
WebKitKeyMessage(t) ==
    LegacyStep(t, "webkitneedkey", "webkitSession", "webkitLicensing", 1, 0)

\* getLicense's callback in addKey: 'licenserequestattempted' is triggered,
\* then an error rejects addKey's promise and a license is given to
\* keySession.update.
WebKitLicenseCallback(t, err) ==
    LegacyStep(t, "webkitneedkey", "webkitLicensing",
               IF err THEN "webkitLicenseFailed" ELSE "webkitUpdated", 0, 1)

\* 'webkitkeyadded': addKey's promise resolves.
WebKitKeyAdded(t) ==
    LegacyStep(t, "webkitneedkey", "webkitUpdated", "webkitAdded", 0, 0)

\* 'webkitkeyerror': addKey's promise rejects.
WebKitKeyError(t) ==
    \E from \in {"webkitSession", "webkitUpdated"} :
        LegacyStep(t, "webkitneedkey", from, "webkitKeyError", 0, 0)

\* createSession's 'mskeymessage' listener: addKeyToSession calls getKey when
\* the PlayReady options have one, requestPlayreadyLicense otherwise.
MsKeyMessage(t) ==
    LegacyStep(t, "msneedkey", "msSession", "msLicensing", 1, 0)

\* addKeyToSession's callbacks: getKey's triggers nothing,
\* requestPlayreadyLicense's triggers 'licenserequestattempted'.
addKeyToSession(getKey) == IF getKey THEN 0 ELSE 1

\* The callback of the license exchange started by addKeyToSession: an error
\* is logged, a key is given to session.update.
MsLicenseCallback(t, err) ==
    LegacyStep(t, "msneedkey", "msLicensing",
               IF err THEN "msLicenseFailed" ELSE "msUpdated", 0,
               addKeyToSession(scenario.getKey))

\* The outcome of the promise the entry point returned for signal t:
\* handleEncryptedEvent's follows standard5July2016's, whose creation chain
\* ends in a catch that logs; fairplay's ends in a catch that logs, so every
\* rejection inside it becomes a resolution.
Outcome(t) ==
    LET pc == tasks[t].pc
    IN CASE pc \in {"negotiating", "waitKeys", "microtask", "certificate",
                    "webkitSession", "webkitLicensing", "webkitUpdated"} -> "pending"
         [] pc \in {"threw"} -> "rejected"
         [] pc = "rejected" /\ tasks[t].kind = "encrypted" -> "rejected"
         [] OTHER -> "resolved"

\* The initData of the next event: null, or a new ArrayBuffer.
EventInitData(contents) ==
    {Null} \cup { EventBuffer(Len(tasks) + 1, b) : b \in contents }

\* ------------------------------------------------------------------ Next
\* The steps of the Standard variant's creation chain and microtasks.
Chain ==
    \/ ChainAccess
    \/ \E err \in BOOLEAN : CertCallback(err)
    \/ CreateMediaKeysRejected
    \/ SetMediaKeys
    \/ \E ok \in BOOLEAN : AssignSettled(ok)
    \/ RunMicrotask

\* The platform events of the key sessions.
Lifecycle ==
    \/ \E s \in DOMAIN keySessions : GenerateRequestRejected(s)
    \/ \E s \in DOMAIN keySessions : Message(s)
    \/ \E s \in DOMAIN keySessions, err \in BOOLEAN : LicenseSettled(s, err)
    \/ \E s \in DOMAIN keySessions, m \in KeyStatusMaps : KeyStatusesChange(s, m)
    \/ \E s \in DOMAIN keySessions : CloseResolved(s)

\* The Standard variant on a player whose source may change: 'encrypted'
\* signals, the creation chain, the sessions' events.
Next ==
    \/ \E d \in EventInitData(EventBytes), s \in Sources :
           Encrypted(d, s, MaxSignals)
    \/ \E t \in DOMAIN tasks : EncryptedCont(t)
    \/ Chain
    \/ Lifecycle

Spec == Init /\ [][Next]_vars

\* The Standard variant on one source, up to the creation of the sessions:
\* more signals, no source change, no session events.
NextQueue ==
    \/ \E d \in EventInitData(QueueBytes) : Encrypted(d, src, MaxQueueSignals)
    \/ \E t \in DOMAIN tasks : EncryptedCont(t)
    \/ Chain

SpecQueue == Init /\ [][NextQueue]_vars

\* The need-key signals of the three variants on one player, up to the
\* creation of the sessions.
NextSurface ==
    \/ \E d \in EventInitData(EventBytes), s \in Sources :
           Encrypted(d, s, MaxSignals)
    \/ \E t \in DOMAIN tasks : EncryptedCont(t)
    \/ Chain
    \/ \E d \in EventInitData(EventBytes), ok \in BOOLEAN, s \in Sources :
           MsNeedKey(d, ok, s, MaxSignals)
    \/ \E d \in EventInitData(EventBytes), s \in Sources :
           WebKitNeedKey(d, s, MaxSignals)
    \/ \E t \in DOMAIN tasks, err \in BOOLEAN, keysSet \in BOOLEAN :
           FairplayCert(t, err, keysSet)

SpecSurface == Init /\ [][NextSurface]_vars

\* The platform events of the legacy adapters' sessions.
LegacyLifecycle ==
    \/ \E t \in DOMAIN tasks : WebKitKeyMessage(t)
    \/ \E t \in DOMAIN tasks, err \in BOOLEAN : WebKitLicenseCallback(t, err)
    \/ \E t \in DOMAIN tasks : WebKitKeyAdded(t)
    \/ \E t \in DOMAIN tasks : WebKitKeyError(t)
    \/ \E t \in DOMAIN tasks : MsKeyMessage(t)
    \/ \E t \in DOMAIN tasks, err \in BOOLEAN : MsLicenseCallback(t, err)

\* The three variants on one source with the license exchange of every
\* session followed to its end.
NextLicense ==
    \/ \E d \in EventInitData(EventBytes) : Encrypted(d, src, MaxLicenseSignals)
    \/ \E t \in DOMAIN tasks : EncryptedCont(t)
    \/ Chain
    \/ Lifecycle
    \/ \E d \in EventInitData(EventBytes), ok \in BOOLEAN :
           MsNeedKey(d, ok, src, MaxLicenseSignals)
    \/ \E d \in EventInitData(EventBytes) : WebKitNeedKey(d, src, MaxLicenseSignals)
    \/ \E t \in DOMAIN tasks, err \in BOOLEAN, keysSet \in BOOLEAN :
           FairplayCert(t, err, keysSet)
    \/ LegacyLifecycle

SpecLicense == Init /\ [][NextLicense]_vars

\* The steps of the creation chain and of a session's license exchange when
\* every external step succeeds.
ChainSucceeds ==
    \/ ChainAccess
    \/ CertCallback(FALSE)
    \/ SetMediaKeys
    \/ AssignSettled(TRUE)
    \/ RunMicrotask

LicenseSucceeds ==
    \/ \E s \in DOMAIN keySessions : Message(s)
    \/ \E s \in DOMAIN keySessions : LicenseSettled(s, FALSE)

\* The Standard variant when no external step fails.  A promise that can
\* settle does, a queued microtask runs, and the platform delivers the
\* 'message' event of a session it has generated a request for; whether
\* another signal arrives is left open.
NextLive ==
    \/ \E d \in EventInitData(EventBytes), s \in Sources :
           Encrypted(d, s, MaxLicenseSignals)
    \/ \E t \in DOMAIN tasks : EncryptedCont(t)
    \/ ChainSucceeds
    \/ LicenseSucceeds

SpecLive ==
    /\ Init
    /\ [][NextLive]_vars
    /\ WF_vars(\E t \in DOMAIN tasks : EncryptedCont(t))
    /\ WF_vars(ChainSucceeds)
    /\ WF_vars(LicenseSucceeds)

\* The platform events of a session that may also ask for renewals.
Renewals ==
    \/ \E s \in DOMAIN keySessions : GenerateRequestRejected(s)
    \/ \E s \in DOMAIN keySessions : KeyMessage(s, MaxRequests)
    \/ \E s \in DOMAIN keySessions, err \in BOOLEAN : LicenseSettled(s, err)
    \/ \E s \in DOMAIN keySessions, m \in KeyStatusMaps : KeyStatusesChange(s, m)
    \/ \E s \in DOMAIN keySessions : CloseResolved(s)

\* The Standard variant on one source where the platform may ask a session
\* for renewals.
NextRenewal ==
    \/ \E d \in EventInitData(EventBytes) : Encrypted(d, src, MaxLicenseSignals)
    \/ \E t \in DOMAIN tasks : EncryptedCont(t)
    \/ Chain
    \/ Renewals

SpecRenewal == Init /\ [][NextRenewal]_vars

\* The life of a session that gets its license and expires.
Expiry ==
    \/ \E s \in DOMAIN keySessions : Message(s)
    \/ \E s \in DOMAIN keySessions : LicenseSettled(s, FALSE)
    \/ \E s \in DOMAIN keySessions, m \in {<< "usable" >>, << "expired" >>} :
           KeyStatusesChange(s, m)
    \/ \E s \in DOMAIN keySessions : CloseResolved(s)

\* The Standard variant on one source when no external step fails, with
\* sessions followed from their creation to their removal.
NextExpiry ==
    \/ \E d \in EventInitData(EventBytes) : Encrypted(d, src, MaxSessionSignals)
    \/ \E t \in DOMAIN tasks : EncryptedCont(t)
    \/ ChainSucceeds
    \/ Expiry

SpecExpiry == Init /\ [][NextExpiry]_vars

\* ================================================================ claims
ByteEqual(a, b) == a # Null /\ b # Null /\ a.bytes = b.bytes

\* The continuation of signal t's handler ran with initialization data.
Reached(t) ==
    /\ tasks[t].kind = "encrypted"
    /\ tasks[t].pc \notin {"negotiating", "rejected"}
    /\ tasks[t].used # Null

\* standard5July2016 was called for signal t.
Started(t) ==
    tasks[t].pc \in {"waitKeys", "microtask", "queued", "requested", "threw"}

EntriesLike(r, d) == { i \in DOMAIN regs[r] : ByteEqual(regs[r][i].initData, d) }

SessionsOf(t) == { s \in DOMAIN keySessions : keySessions[s].task = t }

\* C1: on one source, whatever the order in which the signals arrive and
\* their negotiations resolve, every fingerprint an 'encrypted' signal was
\* handled with has exactly one entry in the sessions array and exactly one
\* call of standard5July2016.
C1_OneSessionPerFingerprint ==
    \A t \in DOMAIN tasks :
        Reached(t) =>
            /\ Cardinality(EntriesLike(tasks[t].reg, tasks[t].used)) = 1
            /\ Cardinality({ u \in DOMAIN tasks :
                               /\ tasks[u].reg = tasks[t].reg
                               /\ Started(u)
                               /\ ByteEqual(tasks[u].used, tasks[t].used) }) = 1

\* Two signals with the same bytes in different buffers were both handled,
\* the one that arrived first after the other.
C1_Witness ==
    \E t, u \in DOMAIN tasks :
        /\ t < u
        /\ Reached(t) /\ Reached(u)
        /\ tasks[t].used.id # tasks[u].used.id
        /\ ByteEqual(tasks[t].used, tasks[u].used)
        /\ tasks[t].pc = "ignored"

\* The acquisition of signal t failed at an asynchronous step.
Failed(t) ==
    \/ /\ chain.owner = t
       /\ chain.st = "failed"
       /\ chain.cause \in {"certificate", "createMediaKeys"}
    \/ \E s \in SessionsOf(t) :
           keySessions[s].st \in {"requestFailed", "licenseFailed"}

\* C2: a signal whose acquisition failed has no entry in its sessions array.
C2_FailedNotInRegistry ==
    \A t \in DOMAIN tasks :
        Failed(t) => ~\E i \in DOMAIN regs[tasks[t].reg] :
                          regs[tasks[t].reg][i].task = t

RECURSIVE Sum(_, _)
Sum(f, S) ==
    IF S = {} THEN 0
    ELSE LET x == CHOOSE y \in S : TRUE IN f[x] + Sum(f, S \ {x})

CreateCalls(kind) ==
    Sum([t \in DOMAIN tasks |-> tasks[t].create],
        { t \in DOMAIN tasks : tasks[t].kind = kind })

\* C3 as claimed: no variant constructs a second key-management object on
\* the surface.
C3_OneKeyObjectPerSurface ==
    /\ CreateCalls("encrypted") <= 1
    /\ webkitKeysConstructed <= 1
    /\ msKeysConstructed <= 1

\* C3 amended: createMediaKeys is called at most once; a WebKitMediaKeys is
\* constructed only while video.webkitKeys is unset, so at most one
\* construction leaves it set; an MSMediaKeys is constructed for the first
\* 'msneedkey' of every active source, at most once per source.
C3_OneKeyObjectPerGuard ==
    /\ CreateCalls("encrypted") <= 1
    /\ webkitKeysConstructed = CreateCalls("webkitneedkey")
    /\ Cardinality({ t \in DOMAIN tasks : /\ tasks[t].kind = "webkitneedkey"
                                          /\ tasks[t].create = 1
                                          /\ tasks[t].pc = "webkitSession" }) <= 1
    /\ msKeysConstructed <= srcChanges + 1
    /\ \A r \in DOMAIN regs :
           Cardinality({ i \in DOMAIN regs[r] : regs[r][i].playready }) <= 1

\* Two 'encrypted' signals, one on each side of a source change, reached
\* standard5July2016 and the keys were created once.
C3_Witness ==
    /\ mediaKeysObject = "created"
    /\ CreateCalls("encrypted") = 1
    /\ \E t, u \in DOMAIN tasks :
           /\ tasks[t].kind = "encrypted" /\ tasks[u].kind = "encrypted"
           /\ Started(t) /\ Started(u)
           /\ tasks[t].epoch < tasks[u].epoch

\* The signal that found video.mediaKeysObject undefined and started the
\* creation chain (0 while there is none).
Trigger == chain.owner

Calls(field) ==
    Sum([t \in DOMAIN tasks |-> tasks[t][field]],
        { t \in DOMAIN tasks : tasks[t].kind = "encrypted" })

C5_QueueDrainedOnce ==
    /\ \A t \in DOMAIN tasks :
           /\ Cardinality(SessionsOf(t)) = IF tasks[t].pc = "requested" THEN 1 ELSE 0
           /\ Cardinality({ i \in DOMAIN pendingSessionData :
                              pendingSessionData[i].task = t })
                  = IF tasks[t].pc = "queued" THEN 1 ELSE 0
    /\ mediaKeysObject = "created" =>
           /\ pendingSessionData = <<>>
           /\ \A t \in DOMAIN tasks :
                  Started(t) => tasks[t].pc \in {"waitKeys", "microtask", "requested"}
    /\ mediaKeysObject # "created" => keySessions = <<>>

\* The chain is over, nothing waits, and the sessions of two queued signals
\* and of the signal that started the creation exist.
C5_Witness ==
    /\ chain.st = "done"
    /\ mq = <<>>
    /\ Cardinality({ s \in DOMAIN keySessions : keySessions[s].drained }) = 2
    /\ SessionsOf(Trigger) # {}

\* The session was made for a signal that reached standard5July2016 before
\* the keys existed.
EarlySession(s) == keySessions[s].drained \/ keySessions[s].task = Trigger

\* C6 as claimed: the sessions of the signals that arrived before the keys
\* existed are created in the signals' arrival order.
C6_ArrivalOrder ==
    \A i, j \in DOMAIN keySessions :
        i < j /\ EarlySession(i) /\ EarlySession(j) =>
            keySessions[i].task < keySessions[j].task

\* C6 amended: the sessions of the queued signals are created in the order
\* in which the signals were queued, and the session of the signal that
\* started the creation is created after all of them.
C6_QueueOrder ==
    \A i, j \in DOMAIN keySessions :
        i < j =>
            /\ keySessions[i].drained /\ keySessions[j].drained =>
                   tasks[keySessions[i].task].enq < tasks[keySessions[j].task].enq
            /\ keySessions[i].task = Trigger => ~keySessions[j].drained

\* Two queued signals and the one that started the creation have sessions.
C6_Witness ==
    /\ \E i, j \in DOMAIN keySessions :
           i < j /\ keySessions[i].drained /\ keySessions[j].drained
    /\ SessionsOf(Trigger) # {}

\* C7: a session that was closed because a key expired has no entry left in
\* the sessions array of the active source.
C7_ExpiredSessionRemoved ==
    \A s \in DOMAIN keySessions :
        /\ keySessions[s].st = "closed"
        /\ tasks[keySessions[s].task].reg = Len(regs)
        => ~\E i \in DOMAIN sessions : sessions[i].task = keySessions[s].task

\* C8: the sessions array of a signal is the one of its source: it holds
\* entries of signals of the same source period only, and the array of the
\* active source holds entries of signals of the active source only.
C8_NoCrossSourceEntries ==
    /\ \A t, u \in DOMAIN tasks :
           tasks[t].reg = tasks[u].reg <=> tasks[t].epoch = tasks[u].epoch
    /\ \A r \in DOMAIN regs : \A i \in DOMAIN regs[r] :
           tasks[regs[r][i].task].reg = r
    /\ \A i \in DOMAIN sessions :
           /\ tasks[sessions[i].task].epoch = srcChanges
           /\ tasks[sessions[i].task].src = activeSrc

\* A signal of the previous source pushed its entry after a signal of the
\* new source had started the creation chain; both arrays hold an entry.
C8_Witness ==
    /\ Len(regs) = 2
    /\ regs[1] # <<>> /\ regs[2] # <<>>
    /\ Trigger # 0
    /\ tasks[Trigger].epoch = 1
    /\ \E t \in DOMAIN tasks : tasks[t].epoch = 0 /\ Started(t)

\* C9: the step that changes the active source leaves the pending queue
\* empty, and no signal queued under a source gets its session after a later
\* source change.
C9_PendingClearedOnSourceChange ==
    /\ [][activeSrc' # activeSrc => pendingSessionData' = <<>>]_vars
    /\ [](\A s \in DOMAIN keySessions :
             keySessions[s].drained =>
                 keySessions[s].epoch = tasks[keySessions[s].task].epoch)

\* C10: no two entries of the active source's sessions array have byte-equal
\* initialization data.
C10_NoByteEqualEntries ==
    \A i, j \in DOMAIN sessions :
        i # j => ~ByteEqual(sessions[i].initData, sessions[j].initData)

\* Signals t and u of one kind, u after t, on the same source with the same
\* bytes of initData.
Repeat(t, u, kind) ==
    /\ t < u
    /\ tasks[t].kind = kind /\ tasks[u].kind = kind
    /\ tasks[t].reg = tasks[u].reg
    /\ ByteEqual(tasks[t].initData, tasks[u].initData)

AcquisitionFailed(t) ==
    \/ Failed(t)
    \/ /\ tasks[t].kind = "webkitneedkey"
       /\ tasks[t].pc \in {"certFailed", "rejected", "webkitLicenseFailed",
                            "webkitKeyError"}

\* C12: after a failure the promise returned by the entry point is not
\* resolved: it is pending or rejected.
C12_FailureRejects ==
    \A t \in DOMAIN tasks : AcquisitionFailed(t) => Outcome(t) # "resolved"

\* C13: for every session of every adapter, one 'licenserequestattempted'
\* event has been triggered for every license request whose callback has
\* run, and none for a request still in flight.
C13_OneNotificationPerAttempt ==
    /\ \A s \in DOMAIN keySessions :
           keySessions[s].note =
               keySessions[s].lic - (IF keySessions[s].st = "licensing" THEN 1 ELSE 0)
    /\ \A t \in DOMAIN tasks :
           tasks[t].note =
               tasks[t].lic - (IF tasks[t].pc \in {"msLicensing", "webkitLicensing"}
                               THEN 1 ELSE 0)

\* The key system the platform resolves is one configured with neither a
\* license URL nor a getLicense hook.
Unlicensable ==
    \E i \in DOMAIN scenario.keySystems :
        /\ scenario.keySystems[i].name \in scenario.supported
        /\ \A j \in 1..(i - 1) : scenario.keySystems[j].name \notin scenario.supported
        /\ ~scenario.keySystems[i].url
        /\ ~scenario.keySystems[i].getLicense

\* C14: when the resolved key system has neither a URL nor a getLicense
\* hook, no certificate is requested, no key-management object is created,
\* no session is opened (so no license is requested), and when the creation
\* chain has failed it has failed on the configuration.
C14_ConfigurationRejected ==
    Unlicensable =>
        /\ Calls("cert") = 0
        /\ Calls("create") = 0
        /\ ~certificate
        /\ mediaKeysObject # "created"
        /\ keySessions = <<>>
        /\ chain.st \in {"idle", "negotiating", "failed"}
        /\ chain.st = "failed" => chain.cause = "configuration"

\* Such a configuration was rejected although it names a getCertificate
\* hook: the creation chain failed and the signal's promise was rejected.
C14_Witness ==
    /\ Unlicensable
    /\ keySystemOptionsOf(keySystem).getCertificate
    /\ chain.st = "failed"
    /\ chain.cause = "configuration"
    /\ mq = <<>>
    /\ \E t \in DOMAIN tasks : tasks[t].pc = "threw"

\* The positions of the configured key systems the platform accepts, and the
\* first of them (0 when there is none).
AcceptedAt ==
    { i \in DOMAIN scenario.keySystems :
          scenario.keySystems[i].name \in scenario.supported }

FirstAcceptedAt ==
    IF AcceptedAt = {} THEN 0
    ELSE CHOOSE i \in AcceptedAt : \A j \in AcceptedAt : i <= j

\* C15: a settled negotiation has asked the platform for the configured key
\* systems in configuration order up to the first accepted one and no
\* further, and resolved with that one; the creation chain proceeds with the
\* first accepted key system; no certificate is fetched for a key system
\* without a getCertificate hook.
C15_NegotiationInOrder ==
    /\ \A t \in DOMAIN tasks :
           (tasks[t].kind = "encrypted" /\ tasks[t].pc # "negotiating") =>
               /\ tasks[t].asked =
                      [i \in 1..(IF FirstAcceptedAt = 0
                                 THEN Len(scenario.keySystems)
                                 ELSE FirstAcceptedAt) |->
                          scenario.keySystems[i].name]
               /\ tasks[t].ks = IF FirstAcceptedAt = 0 THEN ""
                                ELSE scenario.keySystems[FirstAcceptedAt].name
    /\ keySystem # "" =>
           /\ FirstAcceptedAt # 0
           /\ keySystem = scenario.keySystems[FirstAcceptedAt].name
           /\ ~keySystemOptionsOf(keySystem).getCertificate =>
                  Calls("cert") = 0 /\ ~certificate

\* Two key systems were refused, the first of them with a getCertificate
\* hook, before the third was accepted and the keys were created for it
\* without a certificate fetch.
C15_Witness ==
    /\ Len(scenario.keySystems) = 3
    /\ keySystem = scenario.keySystems[3].name
    /\ scenario.keySystems[1].getCertificate
    /\ mediaKeysObject = "created"
    /\ Calls("cert") = 0
    /\ \E t \in DOMAIN tasks : Len(tasks[t].asked) = 3 /\ tasks[t].ks = keySystem

\* C20: once the promise of an initializeMediaKeys call (a signal whose
\* initData is null) has settled on a platform that accepts a configured key
\* system, the creation of the key-management object has been started.
C20_InitializeCreatesKeys ==
    \A t \in DOMAIN tasks :
        ( /\ tasks[t].kind = "encrypted"
          /\ tasks[t].initData = Null
          /\ AcceptedAt # {}
          /\ tasks[t].pc # "negotiating" ) => mediaKeysObject # "undefined"

\* C18: in Legacy variant A a signal whose certificate fetch has not
\* succeeded has no key-management object constructed for it, no session and
\* no license request; a key-management object exists only when some
\* signal's certificate fetch succeeded; and after a failed certificate fetch
\* nothing more happens for the signal.
C18_CertificateBeforeSession ==
    /\ [](/\ \A t \in DOMAIN tasks :
               ( /\ tasks[t].kind = "webkitneedkey"
                 /\ tasks[t].pc \in {"certificate", "certFailed"} ) =>
                   tasks[t].create = 0 /\ tasks[t].session = 0 /\ tasks[t].lic = 0
          /\ webkitKeysConstructed > 0 =>
                 \E t \in DOMAIN tasks :
                     /\ tasks[t].kind = "webkitneedkey"
                     /\ tasks[t].pc \notin {"ignored", "certificate", "certFailed"})
    /\ [][\A t \in DOMAIN tasks :
              tasks[t].pc = "certFailed" => tasks'[t] = tasks[t]]_vars

\* A certificate fetch failed and no key-management object was constructed.
C18_Witness ==
    /\ webkitKeysConstructed = 0
    /\ ~webkitKeys
    /\ \E t \in DOMAIN tasks :
           tasks[t].kind = "webkitneedkey" /\ tasks[t].pc = "certFailed"

\* C17: a step in which a session handles a 'keystatuseschange' event none
\* of whose keys reports 'expired' changes nothing of the session but its
\* key statuses and the events triggered for them (it is not closed), and
\* changes no sessions array.
C17_StatusChangeLeavesSession ==
    [][\A s \in DOMAIN keySessions, m \in KeyStatusMaps :
           ( /\ KeyStatusesChange(s, m)
             /\ \A i \in DOMAIN m : m[i] # "expired" ) =>
               /\ keySessions' = [keySessions EXCEPT
                                     ![s].keyStatuses = m,
                                     ![s].events = forEach(m, s, 1)]
               /\ regs' = regs]_vars

\* A session with its license applied has handled an event reporting a key
\* with an internal error and is still in the sessions array.
C17_Witness ==
    \E s \in DOMAIN keySessions :
        /\ keySessions[s].st = "updated"
        /\ keySessions[s].keyStatuses = << "usable", "internal-error" >>
        /\ \E i \in DOMAIN regs[keySessions[s].rm] :
               regs[keySessions[s].rm][i].initData.id = keySessions[s].initData.id

\* The resolved key system is configured by a license URL alone.
UrlOnly ==
    /\ FirstAcceptedAt # 0
    /\ scenario.keySystems[FirstAcceptedAt] =
           KS(scenario.keySystems[FirstAcceptedAt].name, TRUE, FALSE, FALSE, Null)

Licensed(t) ==
    \E s \in SessionsOf(t) :
        /\ keySessions[s].st = "updated"
        /\ keySessions[s].getLicense = "defaultGetLicense"
        /\ keySessions[s].lic = 1

\* C16: when the resolved key system is configured by a URL alone and no
\* external step fails, a signal that went through standard5July2016 leads to
\* a session of its own updated with the license that the default getLicense
\* made from the URL has fetched.
C16_UrlOnlyLicensed ==
    \A t \in 1..MaxLicenseSignals :
        (t \in DOMAIN tasks /\ Started(t) /\ UrlOnly) ~> (t \in DOMAIN tasks /\ Licensed(t))

\* The session of a signal was updated through the default getLicense.
C16_Witness ==
    /\ UrlOnly
    /\ \E t \in DOMAIN tasks : Licensed(t)

\* Reading a composite payload back, given where the initData ends.
Uint32At(b, offset) ==
    b[offset + 1] + 256 * b[offset + 2] + 65536 * b[offset + 3]
        + 16777216 * b[offset + 4]

Uint16sAt(b, offset, n) ==
    [i \in 1..n |-> b[offset + 2 * i - 1] + 256 * b[offset + 2 * i]]

Decode(b, n) ==
    LET idBytes == Uint32At(b, n)
        certBytes == Uint32At(b, n + 4 + idBytes)
    IN [initData |-> SubSeq(b, 1, n),
        id |-> Uint16sAt(b, n + 4, idBytes \div 2),
        cert |-> SubSeq(b, n + 8 + idBytes + 1, n + 8 + idBytes + certBytes)]

\* C19: every call of concatInitDataIdAndCertificate returns a buffer of
\* initData + 4 + 2 * idLength + 4 + certLength bytes from which the initData,
\* the content id and the certificate are read back unchanged.
C19_ConcatRoundTrip ==
    concat.pc = "done" =>
        /\ ~concat.out.threw
        /\ Len(concat.out.bytes) =
               Len(concat.initData) + 4 + 2 * Len(concat.id) + 4 + Len(concat.cert)
        /\ Decode(concat.out.bytes, Len(concat.initData)) =
               [initData |-> concat.initData, id |-> concat.id, cert |-> concat.cert]

\* The same for initData of an even number of bytes, which the code handles.
C19_EvenRoundTrip ==
    (concat.pc = "done" /\ Len(concat.initData) % 2 = 0) =>
        /\ ~concat.out.threw
        /\ Len(concat.out.bytes) =
               Len(concat.initData) + 4 + 2 * Len(concat.id) + 4 + Len(concat.cert)
        /\ Decode(concat.out.bytes, Len(concat.initData)) =
               [initData |-> concat.initData, id |-> concat.id, cert |-> concat.cert]

\* C21: when the platform accepts none of the configured key systems, an
\* 'encrypted' handler that has settled has rejected, no sessions array has
\* an entry, video.mediaKeysObject is unset, the creation chain has not
\* started, and no certificate was requested and no session (so no license
\* request) was made.
C21_UnsupportedRejected ==
    AcceptedAt = {} =>
        /\ \A t \in DOMAIN tasks :
               tasks[t].kind = "encrypted" =>
                   /\ tasks[t].pc \in {"negotiating", "rejected"}
                   /\ tasks[t].pc = "rejected" => Outcome(t) = "rejected"
                   /\ tasks[t].cert = 0 /\ tasks[t].create = 0
        /\ \A r \in DOMAIN regs : regs[r] = <<>>
        /\ mediaKeysObject = "undefined"
        /\ chain.st = "idle"
        /\ keySystem = ""
        /\ ~certificate
        /\ keySessions = <<>>

\* Every configured key system was asked for and refused, and the handler
\* of a signal with initialization data has rejected.
C21_Witness ==
    /\ AcceptedAt = {}
    /\ \E t \in DOMAIN tasks :
           /\ tasks[t].kind = "encrypted"
           /\ tasks[t].initData # Null
           /\ tasks[t].pc = "rejected"
           /\ Len(tasks[t].asked) = Len(scenario.keySystems)

\* The protocol states of a session in their order; the failed states come
\* last.
Rank(st) ==
    CASE st = "open" -> 0
      [] st = "licensing" -> 1
      [] st = "updated" -> 2
      [] st = "closing" -> 3
      [] st = "closed" -> 4
      [] OTHER -> 5

\* C22: no step moves a session to an earlier protocol state, and a session
\* that has failed stays as it is: no license request is sent for it and no
\* license is applied to it.
C22_SessionsMoveForward ==
    [][\A s \in DOMAIN keySessions :
           /\ Rank(keySessions'[s].st) >= Rank(keySessions[s].st)
           /\ keySessions[s].st \in {"requestFailed", "licenseFailed"} =>
                  /\ keySessions'[s].st = keySessions[s].st
                  /\ keySessions'[s].lic = keySessions[s].lic]_vars

\* The calls of setServerCertificate on the created MediaKeys.
CertificateSet ==
    { i \in DOMAIN chain.calls : chain.calls[i] = "setServerCertificate" }

\* C23: the certificate is set on the MediaKeys at most once, only after the
\* one certificate fetch has succeeded and as the first call on the object,
\* before the createSession of any queued entry; sessions exist only on a
\* created MediaKeys, which has had its certificate set when the resolved
\* key system has a getCertificate hook, and not otherwise.
C23_CertificateSetOnce ==
    /\ Cardinality(CertificateSet) <= 1
    /\ CertificateSet # {} =>
           /\ CertificateSet = {1}
           /\ certificate
           /\ Calls("cert") = 1
    /\ keySessions # <<>> => mediaKeysObject = "created"
    /\ mediaKeysObject = "created" =>
           (keySystemOptionsOf(keySystem).getCertificate <=> CertificateSet # {})

\* The certificate was set before the sessions of a queued signal and of the
\* triggering one were created.
C23_Witness ==
    /\ CertificateSet = {1}
    /\ Len(chain.calls) > 1
    /\ \E s \in DOMAIN keySessions : keySessions[s].drained
    /\ \E s \in DOMAIN keySessions : keySessions[s].task = Trigger

\* 'msneedkey' signal t was not ignored: an entry was pushed for it and
\* msPrefixed was called.
MsHandled(t) == tasks[t].kind = "msneedkey" /\ tasks[t].pc # "ignored"

\* The initData handleMsNeedKeyEvent uses for signal t.
MsInitData(t) ==
    IF keySystemOptionsOf(PLAYREADY_KEY_SYSTEM).pssh # Null
    THEN keySystemOptionsOf(PLAYREADY_KEY_SYSTEM).pssh
    ELSE tasks[t].initData

\* C24: of the 'msneedkey' signals of one source period, the one handled is
\* the first that carries initialization data (with PlayReady configured),
\* every later one is ignored and has no session; one MSMediaKeys is
\* constructed per handled signal, and a sessions array holds at most one
\* PlayReady entry.  The step of an ignored signal on the active source
\* changes neither the sessions arrays nor video.msKeys.
C24_FirstMsNeedKeyOnly ==
    /\ [](/\ \A u \in DOMAIN tasks :
               tasks[u].kind = "msneedkey" =>
                   ( MsHandled(u) <=>
                       /\ keySystemOptionsOf(PLAYREADY_KEY_SYSTEM).name # ""
                       /\ MsInitData(u) # Null
                       /\ \A t \in 1..(u - 1) :
                              ( /\ tasks[t].kind = "msneedkey"
                                /\ tasks[t].reg = tasks[u].reg ) =>
                                  MsInitData(t) = Null )
          /\ \A u \in DOMAIN tasks :
                 (tasks[u].kind = "msneedkey" /\ ~MsHandled(u)) =>
                     tasks[u].session = 0
          /\ msKeysConstructed = Cardinality({ t \in DOMAIN tasks : MsHandled(t) })
          /\ \A r \in DOMAIN regs :
                 Cardinality({ i \in DOMAIN regs[r] : regs[r][i].playready }) <= 1)
    /\ [][( /\ Len(tasks') = Len(tasks) + 1
            /\ tasks'[Len(tasks')].kind = "msneedkey"
            /\ tasks'[Len(tasks')].pc = "ignored"
            /\ src' = activeSrc ) =>
               /\ regs' = regs
               /\ msKeys' = msKeys
               /\ msKeysConstructed' = msKeysConstructed]_vars

\* A second 'msneedkey' signal with initialization data was ignored on the
\* source whose first one was handled.
C24_Witness ==
    \E t, u \in DOMAIN tasks :
        /\ t < u
        /\ MsHandled(t) /\ tasks[t].session = 1
        /\ tasks[u].kind = "msneedkey"
        /\ tasks[u].reg = tasks[t].reg
        /\ tasks[u].initData # Null
        /\ tasks[u].pc = "ignored"
        /\ msKeysConstructed = 1

\* The session of signal t was closed and its entry is no longer in the
\* sessions array of the signal.
Removed(t) ==
    /\ \E s \in SessionsOf(t) : keySessions[s].st = "closed"
    /\ \A i \in DOMAIN regs[tasks[t].reg] : regs[tasks[t].reg][i].task # t

\* C25: a session that was closed after its expiry, and whose removeSession
\* is bound to the sessions array of its signal, has no entry in that array;
\* the handler of a later signal of the same array with byte-identical
\* initialization data, when it continues after that removal and before
\* another signal has pushed such data again, pushes an entry and chains
\* addSession instead of ignoring the signal; and every
\* signal whose addSession has made a request has a session, on the
\* MediaKeys that is there.
C25_ReacquireAfterExpiry ==
    /\ [](/\ \A s \in DOMAIN keySessions :
               ( /\ keySessions[s].st = "closed"
                 /\ keySessions[s].rm = tasks[keySessions[s].task].reg ) =>
                   Removed(keySessions[s].task)
          /\ \A u \in DOMAIN tasks :
                 tasks[u].pc = "requested" =>
                     SessionsOf(u) # {} /\ mediaKeysObject = "created")
    /\ [][\A u \in DOMAIN tasks :
              ( /\ tasks[u].pc = "negotiating"
                /\ tasks'[u].pc # "negotiating"
                /\ \E t \in 1..(u - 1) :
                       /\ tasks[t].reg = tasks[u].reg
                       /\ ByteEqual(tasks[t].used, tasks'[u].used)
                       /\ Removed(t)
                /\ EntriesLike(tasks[u].reg, tasks'[u].used) = {} ) =>
                  /\ tasks'[u].pc = "microtask"
                  /\ regs'[tasks[u].reg] =
                         Append(regs[tasks[u].reg], Entry(tasks'[u].used, FALSE, u))
                  /\ mediaKeysObject' = "created"]_vars

\* A signal got a session after the session of an earlier signal with the
\* same bytes had expired and been removed.
C25_Witness ==
    \E t, u \in DOMAIN tasks :
        /\ t < u
        /\ tasks[t].reg = tasks[u].reg
        /\ ByteEqual(tasks[t].used, tasks[u].used)
        /\ Removed(t)
        /\ \E s \in SessionsOf(u) : keySessions[s].st # "closed"
        /\ Calls("create") = 1

\* C26: what a session's 'keystatuseschange' listener did for its last
\* event is one 'keystatuschange' event per key of keySession.keyStatuses,
\* each with the key's id, its status and the session, followed by the call
\* of keySession.close() when a key is expired and by nothing otherwise; a
\* session is closing or closed only after such a call.
C26_OneNotificationPerKey ==
    \A s \in DOMAIN keySessions :
        LET m == keySessions[s].keyStatuses
            e == keySessions[s].events
            n == Len(keySessions[s].keyStatuses)
        IN /\ m # <<>> =>
                  /\ Len(e) \in {n, n + 1}
                  /\ \A i \in 1..n :
                         e[i] = [type |-> "keystatuschange", keyId |-> i,
                                 status |-> m[i], target |-> s]
                  /\ Len(e) = n + 1 <=> \E i \in 1..n : m[i] = "expired"
                  /\ Len(e) = n + 1 => e[n + 1].type = "close"
           /\ keySessions[s].st \in {"closing", "closed"} =>
                  m # <<>> /\ e[Len(e)].type = "close"

\* A session with two keys, the first of them expired, is closing after an
\* event for each key.
C26_Witness ==
    \E s \in DOMAIN keySessions :
        /\ keySessions[s].keyStatuses = << "expired", "usable" >>
        /\ Len(keySessions[s].events) = 3
        /\ keySessions[s].st = "closing"

\* After a failed creation chain: the guard is set and no MediaKeys is
\* there, the one chain made at most one certificate fetch and one
\* createMediaKeys call, there is no session, and every signal later than
\* the one that started the chain stands at one of the places in after.
AfterFailure(after) ==
    chain.st = "failed" =>
        /\ mediaKeysObject = "null"
        /\ Calls("neg") = Cardinality({ t \in DOMAIN tasks : tasks[t].kind = "encrypted" }) + 1
        /\ Calls("cert") <= 1
        /\ Calls("create") <= 1
        /\ keySessions = <<>>
        /\ \A t \in DOMAIN tasks :
               (tasks[t].kind = "encrypted" /\ t > chain.owner) =>
                   tasks[t].pc \in after
        /\ \A t \in DOMAIN tasks :
               tasks[t].pc = "queued" <=>
                   \E i \in DOMAIN pendingSessionData : pendingSessionData[i].task = t

\* C27 as claimed: after the first creation attempt has failed, a later
\* signal that went through standard5July2016 is appended to the pending
\* queue once its addSession has run, there is no new certificate fetch or creation and
\* no session.
C27_FailedGuardQueuesOnly ==
    AfterFailure({"negotiating", "rejected", "ignored", "microtask", "queued"})

\* C27 as amended: the same, where after a configuration error the handler
\* of such a signal rejects without queuing it; and the failed chain and the
\* guard stay as they are.
C27_FailedGuardStays ==
    /\ [](/\ AfterFailure({"negotiating", "rejected", "ignored", "microtask",
                           "queued", "threw"})
          /\ \A t \in DOMAIN tasks :
                 tasks[t].pc = "threw" =>
                     chain.st = "failed" /\ chain.cause = "configuration")
    /\ [][chain.st = "failed" =>
              /\ chain' = chain
              /\ mediaKeysObject' = mediaKeysObject
              /\ keySessions' = keySessions]_vars

\* After a rejected createMediaKeys, the signal that started the chain and
\* a later one are both in the pending queue.
C27_Witness ==
    /\ chain.st = "failed"
    /\ chain.cause = "createMediaKeys"
    /\ mq = <<>>
    /\ \E t \in DOMAIN tasks :
           /\ t > chain.owner
           /\ tasks[t].pc = "queued"
           /\ tasks[chain.owner].pc = "queued"

\* C28: a MediaKeys on the video implies that video.keySystem is set, and
\* every session was made with a getLicense function, whether addSession or
\* setMediaKeys' loop made it.
C28_GetLicenseDefined ==
    /\ mediaKeysObject = "created" => keySystem # ""
    /\ \A s \in DOMAIN keySessions :
           /\ keySessions[s].getLicense \notin {"null", "undefined"}
           /\ keySessions[s].getLicense =
                  IF keySystemOptionsOf(keySystem).getLicense THEN "getLicense"
                  ELSE IF keySystem = PLAYREADY_KEY_SYSTEM
                       THEN "defaultPlayreadyGetLicense"
                  ELSE "defaultGetLicense"

\* A session made by setMediaKeys' loop and one made by addSession.
C28_Witness ==
    /\ keySystem # ""
    /\ \E s \in DOMAIN keySessions : keySessions[s].drained
    /\ \E s \in DOMAIN keySessions : ~keySessions[s].drained

====
